---- MODULE Spec2Model ----
(***************************************************************************)
(* Model of python-genetic: the Evolve engine (src/genetic/evolve.py).     *)
(*                                                                         *)
(* The Evolvable candidate type is supplied by the caller; the engine only *)
(* calls genes, fitness_level(), can_survive() and unique().  The model    *)
(* fixes one concrete Evolvable over two genes whose alleles are small     *)
(* integers: fitness is a fixed function of the genes, can_survive rejects *)
(* some gene assignments, and unique() is coarser than the genes, so that  *)
(* different candidates can share a key and candidates of different keys   *)
(* can share a fitness.                                                    *)
(***************************************************************************)
EXTENDS Integers, Sequences, FiniteSets, TLC

(* ---------------------------- bounds ----------------------------------- *)
MaxN == 3
MaxNBest == 2
MaxChildren == 2
MaxEvery == 2
MaxCalls == 2
MaxLen == 2
MaxPos == 2

(* ------------------------ program constants ---------------------------- *)
\* set_best(self, n_best=5)
DefaultNBest == 5
\* best_parents(self, n=2)
DefaultNParents == 2
\* mutate(self, evolvable, n1=1, n2=2)
MutateN1 == 1
MutateN2 == 2
\* Python's None as the value of cb_every when it is not supplied
NoneVal == -1
\* the value of a gene that has no allele yet
NoAllele == 0

(* --------------------------- gene pool --------------------------------- *)
\* self.gene_pool is a dict gene -> list of alleles; iteration follows a
\* fixed order of the keys.
GeneOrder == <<"color", "size">>
Genes == {GeneOrder[k] : k \in 1..Len(GeneOrder)}
NGenes == Len(GeneOrder)

\* The allele lists a gene of the pool may have: overlapping and disjoint
\* lists, lists of one allele, and the full list.
AlleleLists == {<<1>>, <<3>>, <<1, 2>>, <<2, 3>>, <<1, 2, 3>>}
Pools == [Genes -> AlleleLists]

MakePool(c, s) == [g \in Genes |-> IF g = "color" THEN c ELSE s]

\* The pools the engine is run on.  With the Evolvable of the model
\* (can_survive: color >= size) they are, in this order: a pool where a
\* rejected parent can be rebuilt into a surviving one; a pool whose every
\* assignment survives; a pool with a surviving assignment where a
\* rejected parent cannot be rebuilt; a pool with no two distinct alleles;
\* a pool with no surviving assignment; a pool where the first allele
\* drawn can leave no allele for the second gene.
EnginePools ==
    { MakePool(<<1, 2, 3>>, <<1, 2, 3>>),
      MakePool(<<2, 3>>, <<1, 2>>),
      MakePool(<<1, 2>>, <<1, 2, 3>>),
      MakePool(<<1>>, <<1>>),
      MakePool(<<1, 2>>, <<2, 3>>),
      MakePool(<<1, 2, 3>>, <<1>>) }

Range(s) == {s[k] : k \in 1..Len(s)}

(* ---------------------------- Evolvable -------------------------------- *)
\* evolvable_class(gene_pool.keys()): every gene present, no allele yet
NewEvolvable == [g \in Genes |-> NoAllele]

\* parent.genes.values()
Values(genes) == {genes[g] : g \in Genes}

\* fitness_level(), can_survive(), unique() of the Evolvable of the model
FitnessLevel(genes) == genes["color"]
CanSurvive(genes) == genes["color"] >= genes["size"]
Unique(genes) == genes["size"]

(* ------------------------- set_best / best_parents --------------------- *)
\* lines 57-63: keep the first candidate of every unique() key
RECURSIVE DedupFrom(_, _, _)
DedupFrom(values, seen, acc) ==
    IF values = << >> THEN acc
    ELSE LET v == Head(values) IN
         IF Unique(v) \in seen
         THEN DedupFrom(Tail(values), seen, acc)
         ELSE DedupFrom(Tail(values), seen \cup {Unique(v)}, Append(acc, v))

DedupKeepAll(values) == values
\* lines 57-63
Dedup(values) == DedupFrom(values, {}, << >>)

\* sorted(..., key=fitness_level, reverse=True): stable, so candidates of
\* equal fitness keep their relative order.
RECURSIVE InsertDesc(_, _)
InsertDesc(sorted, v) ==
    IF sorted = << >> THEN << v >>
    ELSE IF FitnessLevel(Head(sorted)) >= FitnessLevel(v)
         THEN << Head(sorted) >> \o InsertDesc(Tail(sorted), v)
         ELSE << v >> \o sorted

RECURSIVE SortFrom(_, _)
SortFrom(values, acc) ==
    IF values = << >> THEN acc
    ELSE SortFrom(Tail(values), InsertDesc(acc, Head(values)))

\* the same sort in ascending order: part of a faulty variant of set_best
RECURSIVE InsertAsc(_, _)
InsertAsc(sorted, v) ==
    IF sorted = << >> THEN << v >>
    ELSE IF FitnessLevel(Head(sorted)) <= FitnessLevel(v)
         THEN << Head(sorted) >> \o InsertAsc(Tail(sorted), v)
         ELSE << v >> \o sorted

RECURSIVE SortAscFrom(_, _)
SortAscFrom(values, acc) ==
    IF values = << >> THEN acc
    ELSE SortAscFrom(Tail(values), InsertAsc(acc, Head(values)))

SortedAscending(values) == SortAscFrom(values, << >>)
SortedDescending(values) == SortFrom(values, << >>)

\* the slice [:n] for n >= 0
Take(s, n) == SubSeq(s, 1, IF n < Len(s) THEN n ELSE Len(s))

\* faulty variants of set_best: no deduplication, no sort, ascending sort
SetBestKeepAll(b, pop, nb) == Take(SortedDescending(DedupKeepAll(b \o pop)), nb)
SetBestUnsorted(b, pop, nb) == Take(Dedup(b \o pop), nb)
SetBestAscending(b, pop, nb) == Take(SortedAscending(Dedup(b \o pop)), nb)
\* set_best(n_best): the new value of self.best
SetBest(b, pop, nb) == Take(SortedDescending(Dedup(b \o pop)), nb)

\* best_parents(n)
Min(a, b) == IF a <= b THEN a ELSE b

BestParentsAscending(pop, n) == Take(SortedAscending(pop), n)

BestParents(pop, n) == Take(SortedDescending(pop), n)

(* ------------------------------ state ---------------------------------- *)
VARIABLES
    genePool,    \* self.gene_pool
    population,  \* self.population
    best,        \* self.best
    pc,          \* where the engine is: "idle" between calls, else inside run()
    args,        \* the arguments of the run() call in progress
    i,           \* the loop variable of run()
    parents,     \* the result of best_parents() in the current generation
    cbLog,       \* the generation indices cb was invoked with by the run() call
                 \* in progress, in order
    result,      \* how the last run() call ended
    seeded,      \* the run() call in progress executed lines 43-44
    popAtCall,   \* self.population when the run() call in progress began
    bestAtCall,  \* self.best when the run() call in progress began
    parent,      \* generate_random_parent: the Evolvable being filled
    gidx,        \* generate_random_parent: position in gene_pool.iteritems()
    retried,     \* generate_random_parent: can_survive() has failed in this call
    gpc,         \* generate_random_parent: "none", "building" or "returned"
    evolvable,   \* mutate: the Evolvable being mutated
    before,      \* mutate: its genes when mutate was called
    swap,        \* mutate: the number of swaps drawn
    swapped,     \* mutate: the swaps done so far
    mpc          \* mutate: "none", "call", "swapping" or "done"

VARIABLES
    bpLog,       \* best_parents: the direct calls made, each with its n and result
    idx,         \* gene_pool: the allele index (its alleles and positions)
    cpy,         \* gene_pool: the index returned by idx.copy()
    copied,      \* gene_pool: copy() has been called
    aliased,     \* gene_pool: which lists of cpy are the very list objects of idx
    target,      \* gene_pool: the object of the last call, "idx" or "cpy"
    nCalls,      \* gene_pool: the number of add_allele and remove_slice calls made
    qa,          \* gene_pool: the start of the range queried
    qb,          \* gene_pool: the stop of the range queried
    qin,         \* gene_pool: the result of idx[qa:qb]
    qout,        \* gene_pool: the result of idx.get_genes_outside_range(qa, qb)
    xParents,    \* cross_over: its argument, the parents' allele indexes
    xChild,      \* cross_over: the allele index of the child it returned
    xpc          \* cross_over: "none", "call", "returned" or "TypeError"

engineVars == <<population, best, pc, args, i, parents, cbLog, result, seeded,
                popAtCall, bestAtCall>>
grpVars == <<parent, gidx, retried, gpc>>
mutateVars == <<evolvable, before, swap, swapped, mpc>>
indexVars == <<idx, cpy, copied, aliased, target, nCalls, qa, qb, qin, qout>>
crossVars == <<xParents, xChild, xpc>>
otherVars == <<bpLog, indexVars, crossVars>>
vars == <<genePool, engineVars, grpVars, mutateVars, otherVars>>

(* ----------------------- generate_random_parent ------------------------ *)
\* The loops of generate_random_parent as a step relation over
\* [genes, gidx]: genes is parent.genes, gidx the position of the for loop
\* (NGenes + 1: the for loop is over and line 93 is next).

GrpDrawAnyAllele(st, a) ==
    [genes |-> [st.genes EXCEPT ![GeneOrder[st.gidx]] = a], gidx |-> st.gidx + 1]
\* lines 89-92: one draw of random.choice(allele) for the gene at gidx; the
\* inner while loop repeats the draw while the allele is already a value
GrpDraw(st, a) ==
    IF a \notin Values(st.genes)
    THEN [genes |-> [st.genes EXCEPT ![GeneOrder[st.gidx]] = a], gidx |-> st.gidx + 1]
    ELSE st

AcceptAlways(genes) == TRUE
\* line 93: the test that decides whether generate_random_parent returns
AcceptParent(genes) == CanSurvive(genes)

GrpReturns(st) == st.gidx = NGenes + 1 /\ AcceptParent(st.genes)

\* the states that follow st; a state that returns has none.  When
\* can_survive() fails the while loop of line 86 starts the for loop again
\* on the same parent object, its genes still set.
GrpSucc(pool, st) ==
    IF st.gidx <= NGenes
    THEN {GrpDraw(st, a) : a \in Range(pool[GeneOrder[st.gidx]])}
    ELSE IF AcceptParent(st.genes) THEN {} ELSE {[st EXCEPT !.gidx = 1]}

RECURSIVE GrpReachFrom(_, _, _)
GrpReachFrom(pool, frontier, seen) ==
    IF frontier = {} THEN seen
    ELSE LET nxt == (UNION {GrpSucc(pool, st) : st \in frontier}) \ seen
         IN GrpReachFrom(pool, nxt, seen \cup nxt)

GrpReach(pool, st) == GrpReachFrom(pool, {st}, {st})

\* line 85
GrpStart == [genes |-> NewEvolvable, gidx |-> 1]

\* every Evolvable a call of generate_random_parent can return
GRPResults(pool) == {st.genes : st \in {t \in GrpReach(pool, GrpStart) : GrpReturns(t)}}

\* a call can reach a state of its loops that no sequence of draws leaves
\* with a return
GRPCanHang(pool) ==
    \E st \in GrpReach(pool, GrpStart) : \A t \in GrpReach(pool, st) : ~GrpReturns(t)

(* ------------------------------- run ----------------------------------- *)
\* truth value of an argument: None and 0 are false
Truthy(x) == x # NoneVal /\ x # 0

\* line 39: any([cb, cb_every]) and not all([cb, cb_every])
ConfigErrorAny(cb, every) == cb \/ Truthy(every)
ConfigError(cb, every) == (cb \/ Truthy(every)) /\ ~(cb /\ Truthy(every))

IdleArgs == [n |-> 0, n_best |-> 0, n_children |-> 0, cb |-> FALSE, cb_every |-> NoneVal]

EveryValues == {NoneVal} \cup (0..MaxEvery)

\* Evolve.__init__ (lines 22-25)
EngineInit ==
    /\ population = << >>
    /\ best = << >>
    /\ pc = "idle"
    /\ args = IdleArgs
    /\ i = 0
    /\ parents = << >>
    /\ cbLog = << >>
    /\ result = "none"
    /\ seeded = FALSE
    /\ popAtCall = << >>
    /\ bestAtCall = << >>

GrpIdle ==
    /\ parent = NewEvolvable
    /\ gidx = 1
    /\ retried = FALSE
    /\ gpc = "none"

MutateIdle ==
    /\ evolvable = NewEvolvable
    /\ before = NewEvolvable
    /\ swap = 0
    /\ swapped = 0
    /\ mpc = "none"

\* gene_pool.__init__ (lines 6-7): an index with no allele; the lists are
\* Python lists until remove_slice rebinds __alleles to an array
EmptyIndex == [alleles |-> << >>, indexes |-> << >>, allelesIsArray |-> FALSE]
NoAlias == [alleles |-> FALSE, indexes |-> FALSE]
NoQuery == [status |-> "none", alleles |-> << >>, indexes |-> << >>]

IndexIdle ==
    /\ idx = EmptyIndex
    /\ cpy = EmptyIndex
    /\ copied = FALSE
    /\ aliased = NoAlias
    /\ target = "none"
    /\ nCalls = 0
    /\ qa = 0
    /\ qb = 0
    /\ qin = NoQuery
    /\ qout = NoQuery

CrossIdle ==
    /\ xParents = << >>
    /\ xChild = EmptyIndex
    /\ xpc = "none"

OtherIdle ==
    /\ bpLog = << >>
    /\ IndexIdle
    /\ CrossIdle

Init ==
    /\ genePool \in EnginePools
    /\ EngineInit
    /\ GrpIdle
    /\ MutateIdle
    /\ OtherIdle

\* line 42
SeedsAlways(pop) == TRUE
MustSeed(pop) == pop = << >>

\* run(n, n_best, n_children, cb_every, cb): lines 39-42, up to the seeding
\* of line 43 or, when the population is not empty, up to the loop
RunCall(n, nb, nc, every, cb) ==
    /\ pc = "idle"
    /\ IF ConfigError(cb, every)
       THEN /\ result' = "ValueError"
            /\ args' = [IdleArgs EXCEPT !.cb = cb, !.cb_every = every]
            /\ UNCHANGED <<population, best, pc, i, parents, cbLog, seeded,
                           popAtCall, bestAtCall>>
       ELSE /\ result' = "running"
            /\ args' = [n |-> n, n_best |-> nb, n_children |-> nc,
                        cb |-> cb, cb_every |-> every]
            /\ popAtCall' = population
            /\ bestAtCall' = best
            /\ cbLog' = << >>
            /\ parents' = << >>
            /\ i' = 0
            /\ seeded' = FALSE
            /\ pc' = IF MustSeed(population) THEN "seed" ELSE "loop"
            /\ UNCHANGED <<population, best>>
    /\ UNCHANGED <<genePool, grpVars, mutateVars, otherVars>>

\* lines 43-44: n_children calls of generate_random_parent, each returning
\* one of the Evolvables it can return; then set_best() with its default
\* n_best
Seed ==
    /\ pc = "seed"
    /\ \E pop \in [1..args.n_children -> GRPResults(genePool)] :
          /\ population' = pop
          /\ best' = SetBest(best, pop, DefaultNBest)
    /\ seeded' = TRUE
    /\ pc' = "loop"
    /\ UNCHANGED <<genePool, args, i, parents, cbLog, result, popAtCall, bestAtCall,
                   grpVars, mutateVars, otherVars>>

\* line 43: a call of generate_random_parent reaches a state of its loops
\* that it never leaves, and run() never returns
SeedHang ==
    /\ pc = "seed"
    /\ args.n_children >= 1
    /\ GRPCanHang(genePool)
    /\ pc' = "hung"
    /\ UNCHANGED <<genePool, population, best, args, i, parents, cbLog, result,
                   seeded, popAtCall, bestAtCall, grpVars, mutateVars, otherVars>>

\* line 47: whether the callback fires at generation index k
CallbackDue(a, k) == a.cb /\ k % a.cb_every = 0

\* lines 46-48: the head of the for loop, with the callback; run returns
\* when i reaches n
LoopHead ==
    /\ pc = "loop"
    /\ IF i < args.n
       THEN /\ cbLog' = IF CallbackDue(args, i) THEN Append(cbLog, i) ELSE cbLog
            /\ pc' = "generation"
            /\ UNCHANGED <<args, result, popAtCall, bestAtCall, i, parents, seeded>>
       ELSE /\ pc' = "idle"
            /\ result' = "returned"
            /\ args' = IdleArgs
            /\ popAtCall' = << >>
            /\ bestAtCall' = << >>
            /\ i' = 0
            /\ parents' = << >>
            /\ seeded' = FALSE
            /\ cbLog' = << >>
    /\ UNCHANGED <<genePool, population, best, grpVars, mutateVars, otherVars>>

\* lines 49-51.  cross_over's first statement, random.random(2) (line 114),
\* raises TypeError: random.random takes no argument.  With n_children >= 1
\* the comprehension of line 50 calls cross_over and run() ends there with
\* the exception, self.population not assigned; with n_children = 0
\* nothing is called, the population becomes empty and set_best(n_best)
\* runs.
Generation ==
    /\ pc = "generation"
    /\ IF args.n_children = 0
       THEN /\ parents' = BestParents(population, DefaultNParents)
            /\ population' = << >>
            /\ best' = SetBest(best, << >>, args.n_best)
            /\ i' = i + 1
            /\ pc' = "loop"
            /\ UNCHANGED <<args, result, seeded, popAtCall, bestAtCall, cbLog>>
       ELSE /\ parents' = BestParents(population, DefaultNParents)
            /\ pc' = "idle"
            /\ result' = "TypeError"
            /\ args' = IdleArgs
            /\ popAtCall' = << >>
            /\ bestAtCall' = << >>
            /\ i' = 0
            /\ seeded' = FALSE
            /\ cbLog' = << >>
            /\ UNCHANGED <<population, best>>
    /\ UNCHANGED <<genePool, grpVars, mutateVars, otherVars>>

\* set_best(n_best) called on the engine between two run() calls
SetBestCall(nb) ==
    /\ pc = "idle"
    /\ best' = SetBest(best, population, nb)
    /\ UNCHANGED <<genePool, population, pc, args, i, parents, cbLog, result, seeded,
                   popAtCall, bestAtCall, grpVars, mutateVars, otherVars>>

Next ==
    \/ \E n \in 0..MaxN, nb \in 0..MaxNBest, nc \in 0..MaxChildren,
          every \in EveryValues, cb \in BOOLEAN : RunCall(n, nb, nc, every, cb)
    \/ Seed
    \/ SeedHang
    \/ LoopHead
    \/ Generation
    \/ \E nb \in (0..MaxNBest) \cup {DefaultNBest} : SetBestCall(nb)

Spec == Init /\ [][Next]_vars

(* ----------------- generate_random_parent, step by step ---------------- *)
\* a call of generate_random_parent on any pool (line 85)
GrpInit ==
    /\ genePool \in Pools
    /\ EngineInit
    /\ MutateIdle
    /\ OtherIdle
    /\ parent = NewEvolvable
    /\ gidx = 1
    /\ retried = FALSE
    /\ gpc = "building"

\* lines 89-92: one draw for the gene at gidx
DrawAllele(a) ==
    /\ gpc = "building"
    /\ gidx <= NGenes
    /\ a \in Range(genePool[GeneOrder[gidx]])
    /\ LET st == GrpDraw([genes |-> parent, gidx |-> gidx], a)
       IN /\ parent' = st.genes
          /\ gidx' = st.gidx
    /\ UNCHANGED <<genePool, engineVars, retried, gpc, mutateVars, otherVars>>

\* lines 93-95: return the parent, or start the for loop again
CheckSurvive ==
    /\ gpc = "building"
    /\ gidx = NGenes + 1
    /\ IF AcceptParent(parent)
       THEN /\ gpc' = "returned"
            /\ UNCHANGED <<gidx, retried>>
       ELSE /\ gidx' = 1
            /\ retried' = TRUE
            /\ UNCHANGED gpc
    /\ UNCHANGED <<genePool, engineVars, parent, mutateVars, otherVars>>

GrpNext ==
    \/ \E a \in UNION {Range(l) : l \in AlleleLists} : DrawAllele(a)
    \/ CheckSurvive

SpecGRP == GrpInit /\ [][GrpNext]_vars

(* ------------------------------ mutate --------------------------------- *)
\* the Evolvables mutate is called on: one allele of the pool per gene, no
\* allele twice
WellFormed(genes, pool) ==
    /\ \A g \in Genes : genes[g] \in Range(pool[g])
    /\ \A g, h \in Genes : g # h => genes[g] # genes[h]

MutateInit ==
    /\ genePool \in Pools
    /\ EngineInit
    /\ GrpIdle
    /\ OtherIdle
    /\ evolvable \in {c \in [Genes -> UNION {Range(l) : l \in AlleleLists}] :
                         WellFormed(c, genePool)}
    /\ before = evolvable
    /\ swap = 0
    /\ swapped = 0
    /\ mpc = "call"

\* line 144: swap = random.randint(n1, n2), both ends included
MutateDrawSwap(k) ==
    /\ mpc = "call"
    /\ k \in MutateN1..MutateN2
    /\ swap' = k
    /\ mpc' = "swapping"
    /\ UNCHANGED <<genePool, engineVars, grpVars, otherVars, evolvable, before, swapped>>

\* lines 147-151: one draw of a gene and of one of its alleles; the while
\* loop repeats the draw while the allele is already a value of the
\* Evolvable
MutateSwap(g, a) ==
    /\ mpc = "swapping"
    /\ swapped < swap
    /\ g \in Genes
    /\ a \in Range(genePool[g])
    /\ IF a \notin Values(evolvable)
       THEN /\ evolvable' = [evolvable EXCEPT ![g] = a]
            /\ swapped' = swapped + 1
       ELSE UNCHANGED <<evolvable, swapped>>
    /\ UNCHANGED <<genePool, engineVars, grpVars, otherVars, before, swap, mpc>>

\* the for loop of line 145 is over: mutate returns
MutateReturn ==
    /\ mpc = "swapping"
    /\ swapped = swap
    /\ mpc' = "done"
    /\ UNCHANGED <<genePool, engineVars, grpVars, otherVars, evolvable, before, swap, swapped>>

MutateNext ==
    \/ \E k \in MutateN1..MutateN2 : MutateDrawSwap(k)
    \/ \E g \in Genes, a \in UNION {Range(l) : l \in AlleleLists} : MutateSwap(g, a)
    \/ MutateReturn

SpecMutate == MutateInit /\ [][MutateNext]_vars

(* ---------------------------- best_parents ----------------------------- *)
\* best_parents called directly, on any population run() can have built
ParentsInit ==
    /\ genePool \in EnginePools
    /\ population \in UNION {[1..k -> GRPResults(genePool)] : k \in 0..MaxChildren}
    /\ best = << >>
    /\ pc = "idle"
    /\ args = IdleArgs
    /\ i = 0
    /\ parents = << >>
    /\ cbLog = << >>
    /\ result = "none"
    /\ seeded = FALSE
    /\ popAtCall = << >>
    /\ bestAtCall = << >>
    /\ GrpIdle
    /\ MutateIdle
    /\ OtherIdle

\* best_parents(n) (lines 68-77): sorted() builds a new list, the population
\* is only read
BestParentsCall(n) ==
    /\ Len(bpLog) < MaxCalls
    /\ parents' = BestParents(population, n)
    /\ bpLog' = Append(bpLog, [n |-> n, result |-> parents'])
    /\ UNCHANGED <<genePool, population, best, pc, args, i, cbLog, result,
                   seeded, popAtCall, bestAtCall, grpVars, mutateVars,
                   indexVars, crossVars>>

ParentsNext == \E n \in 0..(MaxChildren + 1) : BestParentsCall(n)

SpecParents == ParentsInit /\ [][ParentsNext]_vars

(* ------------------------------ gene_pool ------------------------------ *)
\* The allele index of gene_pool.py.  Alleles are small integers and positions
\* lie on an integer grid, so numpy's conversion of the two lists keeps every
\* value; the index built by add_allele from a list of pairs:
IndexAlleles == {1, 2}
Positions == 0..MaxPos

IndexOf(pairs) ==
    [alleles |-> [k \in 1..Len(pairs) |-> pairs[k][1]],
     indexes |-> [k \in 1..Len(pairs) |-> pairs[k][2]],
     allelesIsArray |-> FALSE]

Indexes ==
    {IndexOf(ps) : ps \in UNION {[1..k -> IndexAlleles \X Positions] : k \in 0..MaxLen}}

\* zip(alleles, indexes): the pairs an index holds
Pairs(ix) ==
    [k \in 1..Min(Len(ix.alleles), Len(ix.indexes)) |-> <<ix.alleles[k], ix.indexes[k]>>]

\* __gene_selector (lines 33-36): position >= start and position <= stop,
\* start and stop taken as given
GeneSelector(positions, start, stop) ==
    [k \in 1..Len(positions) |-> positions[k] >= start /\ positions[k] <= stop]

LogicalNot(selector) == [k \in 1..Len(selector) |-> ~selector[k]]

\* array[selector] for a numpy array and a boolean selector: the entries at
\* the selected places, in order
RECURSIVE MaskFrom(_, _, _)
MaskFrom(array, selector, k) ==
    IF k > Len(selector) THEN << >>
    ELSE (IF selector[k] THEN <<array[k]>> ELSE << >>) \o MaskFrom(array, selector, k + 1)

ArrayByMask(array, selector) ==
    [status |-> "ok", value |-> MaskFrom(array, selector, 1)]

\* list[selector] for a Python list and a numpy boolean array: a list index
\* must be an integer, the boolean array is none
ListByMask(list, selector) == [status |-> "TypeError", value |-> << >>]

QueryResult(al, po) ==
    IF al.status # "ok" THEN [status |-> al.status, alleles |-> << >>, indexes |-> << >>]
    ELSE IF po.status # "ok" THEN [status |-> po.status, alleles |-> << >>, indexes |-> << >>]
    ELSE [status |-> "ok", alleles |-> al.value, indexes |-> po.value]

\* __getslice__ (lines 38-40): self.alleles is an array, self.__alleles_indexes
\* is the list itself
GetSlice(ix, start, stop) ==
    LET selector == GeneSelector(ix.indexes, start, stop)
    IN QueryResult(ArrayByMask(ix.alleles, selector), ListByMask(ix.indexes, selector))

\* get_genes_outside_range (lines 42-44): both properties are arrays
GetGenesOutsideRange(ix, start, stop) ==
    LET selector == LogicalNot(GeneSelector(ix.indexes, start, stop))
    IN QueryResult(ArrayByMask(ix.alleles, selector), ArrayByMask(ix.indexes, selector))

\* copy (lines 46-47, 5-12): a new object, add_allele called for every pair of
\* zip(self.alleles, self.alleles_indexes)
CopyShared(ix) == [obj |-> ix, alias |-> [alleles |-> TRUE, indexes |-> TRUE]]

Copy(ix) ==
    LET m == Min(Len(ix.alleles), Len(ix.indexes))
    IN [obj |-> [alleles |-> Take(ix.alleles, m), indexes |-> Take(ix.indexes, m),
                 allelesIsArray |-> FALSE],
        alias |-> NoAlias]

\* remove_slice (lines 49-52): line 51 rebinds __alleles to the filtered
\* array, line 52 indexes the position list with the selector and raises.
\* When an earlier call left fewer alleles than positions the selector is
\* longer than the array: numpy raises IndexError at line 51, or, in releases
\* that only warn, picks the selected places when all of them exist.
RemoveSliceOutcomes(ix, start, stop) ==
    LET selector == LogicalNot(GeneSelector(ix.indexes, start, stop))
        filtered == [ix EXCEPT !.alleles = MaskFrom(ix.alleles, selector, 1),
                               !.allelesIsArray = TRUE]
    IN IF Len(ix.alleles) = Len(selector) THEN {filtered}
       ELSE {ix} \cup
            (IF \A k \in 1..Len(selector) : selector[k] => k <= Len(ix.alleles)
             THEN {filtered} ELSE {})

\* add_allele (lines 26-31): append to both lists; an array has no append,
\* line 27 raises AttributeError
AddAllele(ix, allele, index) ==
    IF ix.allelesIsArray THEN ix
    ELSE [ix EXCEPT !.alleles = Append(@, allele), !.indexes = Append(@, index)]

\* an object after a call, seen through a list it shares with the called one
Shared(other, called) ==
    [other EXCEPT !.alleles = IF aliased.alleles THEN called.alleles ELSE @,
                  !.indexes = IF aliased.indexes THEN called.indexes ELSE @]

\* range queries on an index built by add_allele
QueryInit ==
    /\ genePool = MakePool(<<1>>, <<1>>)
    /\ EngineInit
    /\ GrpIdle
    /\ MutateIdle
    /\ bpLog = << >>
    /\ CrossIdle
    /\ idx \in Indexes
    /\ cpy = EmptyIndex
    /\ copied = FALSE
    /\ aliased = NoAlias
    /\ target = "none"
    /\ nCalls = 0
    /\ qa = 0
    /\ qb = 0
    /\ qin = NoQuery
    /\ qout = NoQuery

GetSliceCall(a, b) ==
    /\ qa' = a
    /\ qb' = b
    /\ qin' = GetSlice(idx, a, b)
    /\ qout' = NoQuery
    /\ UNCHANGED <<genePool, engineVars, grpVars, mutateVars, bpLog, crossVars,
                   idx, cpy, copied, aliased, target, nCalls>>

OutsideRangeCall(a, b) ==
    /\ qa' = a
    /\ qb' = b
    /\ qin' = NoQuery
    /\ qout' = GetGenesOutsideRange(idx, a, b)
    /\ UNCHANGED <<genePool, engineVars, grpVars, mutateVars, bpLog, crossVars,
                   idx, cpy, copied, aliased, target, nCalls>>

QueryNext ==
    \E a \in Positions, b \in Positions :
        \/ GetSliceCall(a, b)
        \/ OutsideRangeCall(a, b)

SpecQuery == QueryInit /\ [][QueryNext]_vars

\* copy() and the calls that change an index, on the original and on the copy
CopyInit == QueryInit

CopyCall ==
    /\ ~copied
    /\ copied' = TRUE
    /\ cpy' = Copy(idx).obj
    /\ aliased' = Copy(idx).alias
    /\ target' = "none"
    /\ UNCHANGED <<genePool, engineVars, grpVars, mutateVars, bpLog, crossVars,
                   idx, nCalls, qa, qb, qin, qout>>

AddAlleleCall(t, allele, index) ==
    /\ nCalls < MaxCalls
    /\ t = "cpy" => copied
    /\ Len(IF t = "idx" THEN idx.alleles ELSE cpy.alleles) < MaxLen
    /\ nCalls' = nCalls + 1
    /\ target' = t
    /\ IF t = "idx"
       THEN /\ idx' = AddAllele(idx, allele, index)
            /\ cpy' = Shared(cpy, idx')
       ELSE /\ cpy' = AddAllele(cpy, allele, index)
            /\ idx' = Shared(idx, cpy')
    /\ UNCHANGED <<genePool, engineVars, grpVars, mutateVars, bpLog, crossVars,
                   copied, aliased, qa, qb, qin, qout>>

RemoveSliceCall(t, a, b) ==
    /\ nCalls < MaxCalls
    /\ t = "cpy" => copied
    /\ nCalls' = nCalls + 1
    /\ target' = t
    /\ IF t = "idx"
       THEN /\ idx' \in RemoveSliceOutcomes(idx, a, b)
            /\ cpy' = cpy
            /\ aliased' = [aliased EXCEPT !.alleles = @ /\ idx' = idx]
       ELSE /\ cpy' \in RemoveSliceOutcomes(cpy, a, b)
            /\ idx' = idx
            /\ aliased' = [aliased EXCEPT !.alleles = @ /\ cpy' = cpy]
    /\ UNCHANGED <<genePool, engineVars, grpVars, mutateVars, bpLog, crossVars,
                   copied, qa, qb, qin, qout>>

CopyNext ==
    \/ CopyCall
    \/ \E t \in {"idx", "cpy"}, allele \in IndexAlleles, index \in Positions :
          AddAlleleCall(t, allele, index)
    \/ \E t \in {"idx", "cpy"}, a \in Positions, b \in Positions :
          RemoveSliceCall(t, a, b)

SpecCopy == CopyInit /\ [][CopyNext]_vars

(* ------------------------------ cross_over ----------------------------- *)
\* the allele index of a parent that holds one allele per gene and no allele
\* twice
ParentIndexes ==
    {IndexOf(ps) : ps \in {qs \in [1..NGenes -> IndexAlleles \X Positions] :
                              \A j, k \in 1..NGenes : j # k => qs[j][1] # qs[k][1]}}

\* cross_over called with one parent or with the DefaultNParents parents that
\* best_parents() returns
CrossInit ==
    /\ genePool = MakePool(<<1>>, <<1>>)
    /\ EngineInit
    /\ GrpIdle
    /\ MutateIdle
    /\ bpLog = << >>
    /\ IndexIdle
    /\ xParents \in UNION {[1..k -> ParentIndexes] : k \in 1..DefaultNParents}
    /\ xChild = EmptyIndex
    /\ xpc = "call"

\* cross_over (lines 113-131): the first statement of the loop body,
\* random.random(2) (line 114), raises TypeError, random.random takes no
\* argument; no child is built
CrossOverCall ==
    /\ xpc = "call"
    /\ xpc' = "TypeError"
    /\ UNCHANGED <<genePool, engineVars, grpVars, mutateVars, bpLog, indexVars,
                   xParents, xChild>>

CrossNext == CrossOverCall

SpecCross == CrossInit /\ [][CrossNext]_vars

(* ============================== claims ================================= *)
InRun == pc \in {"seed", "hung", "loop", "generation"}
Candidates(pool) == {c \in [Genes -> UNION {Range(l) : l \in AlleleLists}] : WellFormed(c, pool)}
Fitnesses(s) == {FitnessLevel(s[k]) : k \in 1..Len(s)}
\* the highest fitness in an archive; 0, below every fitness, when empty
BestFitness(s) == IF s = << >> THEN 0 ELSE CHOOSE f \in Fitnesses(s) : \A h \in Fitnesses(s) : f >= h

\* C1: no two candidates of the archive best have the same unique() key,
\* in every state reached by run() calls and set_best() calls.
C1_ArchiveKeysDistinct ==
    \A j, k \in 1..Len(best) : j # k => Unique(best[j]) # Unique(best[k])

\* C1 witness: the archive holds two candidates while the population holds
\* another candidate with the key of one of them, which set_best dropped.
C1_Witness ==
    /\ pc = "idle"
    /\ Len(best) = 2
    /\ \E j \in 1..Len(best), k \in 1..Len(population) :
          Unique(population[k]) = Unique(best[j]) /\ population[k] # best[j]

\* C2: once run(n, n_best, n_children) has seeded or updated the archive,
\* the archive holds at most n_best candidates (the claim as stated).
C2_ArchiveWithinNBest ==
    (pc \in {"loop", "generation"} /\ (seeded \/ i > 0)) => Len(best) <= args.n_best

\* C3 as stated: the archive is strictly fitness-descending.
C3_StrictlyDescending ==
    \A j \in 1..(Len(best) - 1) : FitnessLevel(best[j]) > FitnessLevel(best[j + 1])

\* C3 amended: the archive is fitness-descending, candidates of different
\* keys and equal fitness being adjacent: each entry's fitness is greater
\* than or equal to the next entry's.
C3_Descending ==
    \A j \in 1..(Len(best) - 1) : FitnessLevel(best[j]) >= FitnessLevel(best[j + 1])

\* C3 witness: an archive of two candidates of different keys and equal
\* fitness, and one of two candidates of different fitness.
C3_Witness ==
    /\ Len(best) = 2
    /\ Unique(best[1]) # Unique(best[2])
    /\ FitnessLevel(best[1]) = FitnessLevel(best[2])
    /\ \E c \in Range(population) : FitnessLevel(c) < FitnessLevel(best[2])

\* C4: during a run() call with n_best >= 1 no step lowers the highest
\* fitness of the archive, and no step empties a non-empty archive; so
\* the best of all time never regresses from one generation to the next nor
\* from one run() call to the next.
C4_BestNeverRegresses ==
    [][(InRun /\ args.n_best >= 1) => BestFitness(best') >= BestFitness(best)]_vars

\* C4 witness: a generation of a run with n_best >= 1 has completed on an
\* engine whose archive it truncated, the archive keeping its best.
C4_Witness ==
    /\ pc = "loop"
    /\ i >= 1
    /\ args.n_best >= 1
    /\ Len(best) < Len(bestAtCall)
    /\ Fitnesses(bestAtCall) # Fitnesses(best)
    /\ BestFitness(best) = BestFitness(bestAtCall)

\* C5: every candidate of the population and of the archive satisfies
\* can_survive().
C5_AllSurvive ==
    /\ \A k \in 1..Len(population) : CanSurvive(population[k])
    /\ \A k \in 1..Len(best) : CanSurvive(best[k])

\* C5 witness: run() has seeded a population and an archive from a pool
\* that has assignments failing can_survive().
C5_Witness ==
    /\ pc = "loop"
    /\ seeded
    /\ Len(population) = 2
    /\ best # << >>
    /\ \E c \in Candidates(genePool) : ~CanSurvive(c)

\* C6: the candidate generate_random_parent returns has, for each gene of
\* the pool, one allele of that gene's list, no allele under two genes, and
\* can_survive() true.
C6_RandomParentWellFormed ==
    gpc = "returned" =>
        /\ DOMAIN parent = Genes
        /\ \A g \in Genes : parent[g] \in Range(genePool[g])
        /\ \A g, h \in Genes : g # h => parent[g] # parent[h]
        /\ CanSurvive(parent)

\* C6 witness: generate_random_parent has returned after can_survive()
\* failed at least once, from a pool whose genes share alleles.
C6_Witness ==
    /\ gpc = "returned"
    /\ retried
    /\ Range(genePool["color"]) \cap Range(genePool["size"]) # {}

\* C7: when mutate(c, 1, 2) returns, between 1 and 2 genes of c have
\* another allele than before the call (the claim as stated).
C7_MutateChangesOneOrTwo ==
    mpc = "done" =>
        Cardinality({g \in Genes : evolvable[g] # before[g]}) \in MutateN1..MutateN2

\* C8: a run() call on an engine whose population is not empty does not
\* seed: it never enters lines 43-44, population and archive are those the
\* previous call left until the first generation replaces them, and the
\* parents of the first generation are the best of that population.
C8_NoReseed ==
    (InRun /\ popAtCall # << >>) =>
        /\ ~seeded
        /\ pc \in {"loop", "generation"}
        /\ i = 0 => (population = popAtCall /\ best = bestAtCall)
        /\ (pc = "loop" /\ i = 1) =>
              parents = Take(SortedDescending(popAtCall), DefaultNParents)

\* C8 witness: the first generation of a run() call on a population of two
\* has selected its parents, the fitter one first.
C8_Witness ==
    /\ pc = "loop"
    /\ i = 1
    /\ Len(popAtCall) = 2
    /\ parents # popAtCall
    /\ parents # << >>

\* the generation indices below m, in increasing order, at which a
\* callback given with cb_every = k fires
RECURSIVE DueBelow(_, _)
DueBelow(k, m) ==
    IF m = 0 THEN << >>
    ELSE IF (m - 1) % k = 0 THEN Append(DueBelow(k, m - 1), m - 1) ELSE DueBelow(k, m - 1)

\* C9: with a callback and cb_every = k >= 1, run(n) invokes the callback
\* exactly once for each generation index j in 0..n-1 with j mod k = 0 and
\* for no other, in increasing order: when run(n) ends, the invocations
\* made are those of the indices below n at which the callback is due.
C9_CallbackForEachDueIndex ==
    [][(InRun /\ args.cb /\ pc' = "idle") =>
        cbLog = DueBelow(args.cb_every, args.n)]_vars

\* an argument is supplied when it is not None
ExactlyOneSupplied(a) == a.cb # (a.cb_every # NoneVal)
\* an argument counts when it is true: neither None nor 0
ExactlyOneTrue(a) == a.cb # Truthy(a.cb_every)

\* C10 as stated: run() fails with the configuration error when exactly
\* one of cb and cb_every is supplied, and in no other case.
C10_ErrorIffOneSupplied ==
    /\ result = "ValueError" => ExactlyOneSupplied(args)
    /\ InRun => ~ExactlyOneSupplied(args)

\* C10 amended: run() fails with the configuration error exactly when one
\* of cb and cb_every is true (not None and not 0) and the other is not; cb
\* with cb_every = 0 fails, cb_every = 0 alone does not.  The failing call
\* leaves population and archive unchanged, invokes no callback and runs
\* no seeding and no generation.
C10_ErrorIffOneTrue ==
    /\ [](result = "ValueError" => (pc = "idle" /\ ExactlyOneTrue(args)))
    /\ [](InRun => ~ExactlyOneTrue(args))
    /\ [][(pc = "idle" /\ result' = "ValueError"
             /\ (result # "ValueError" \/ args' # args))
          => (pc' = "idle" /\ population' = population /\ best' = best
                /\ cbLog' = cbLog /\ cbLog = << >>)]_vars

\* C10 witness: run() was called with a callback and cb_every = 0 on an
\* engine that holds a population and an archive, and failed.
C10_Witness ==
    /\ result = "ValueError"
    /\ args.cb
    /\ args.cb_every = 0
    /\ population # << >>
    /\ best # << >>



\* res is the n fittest of pop, fittest first, equal fitness in population
\* order: res picks positions f of pop, each pick ranks before the next and
\* before every position not picked
IsNHighest(pop, n, res) ==
    /\ Len(res) = Min(n, Len(pop))
    /\ \E f \in [1..Len(res) -> 1..Len(pop)] :
          /\ \A k \in 1..Len(res) : res[k] = pop[f[k]]
          /\ \A k \in 1..(Len(res) - 1) :
                \/ FitnessLevel(res[k]) > FitnessLevel(res[k + 1])
                \/ /\ FitnessLevel(res[k]) = FitnessLevel(res[k + 1])
                   /\ f[k] < f[k + 1]
          /\ \A j \in (1..Len(pop)) \ {f[k] : k \in 1..Len(res)} :
                \A k \in 1..Len(res) :
                    \/ FitnessLevel(res[k]) > FitnessLevel(pop[j])
                    \/ /\ FitnessLevel(res[k]) = FitnessLevel(pop[j])
                       /\ f[k] < j

\* C11: best_parents(n) returns min(n, len(population)) candidates, the n
\* fittest of the population in descending fitness order with equal fitness
\* in population order; it leaves the population unchanged, and a call
\* repeated with the same n returns the same sequence.
C11_BestParentsNHighest ==
    [][Len(bpLog') > Len(bpLog) =>
        LET e == bpLog'[Len(bpLog')] IN
        /\ population' = population
        /\ IsNHighest(population, e.n, e.result)
        /\ (Len(bpLog) > 0 /\ bpLog[Len(bpLog)].n = e.n)
              => e.result = bpLog[Len(bpLog)].result]_vars

\* two calls with n = 1 on a population of two different candidates of
\* equal fitness
C11_Witness ==
    /\ Len(bpLog) = 2
    /\ bpLog[1].n = 1
    /\ bpLog[2].n = 1
    /\ Len(population) = 2
    /\ population[1] # population[2]
    /\ FitnessLevel(population[1]) = FitnessLevel(population[2])
    /\ bpLog[2].result = <<population[1]>>

\* the entries of an index at the places sel keeps, as pairs
PairsKept(ix, keep) == MaskFrom(Pairs(ix), keep, 1)
Inside(ix, a, b) == GeneSelector(ix.indexes, a, b)
ResultPairs(q) == [k \in 1..Len(q.alleles) |-> <<q.alleles[k], q.indexes[k]>>]

\* C12: for a <= b the range query [a:b] returns the entries with
\* a <= position <= b and get_genes_outside_range(a, b) the other entries,
\* each in the original order, so that every entry of the index is in
\* exactly one of the two; a range that matches nothing yields an empty
\* result, not an error.
C12_RangeAndComplementPartition ==
    (qin.status # "none" /\ qa <= qb) =>
        LET out == GetGenesOutsideRange(idx, qa, qb) IN
        /\ qin.status = "ok"
        /\ out.status = "ok"
        /\ ResultPairs(qin) = PairsKept(idx, Inside(idx, qa, qb))
        /\ ResultPairs(out) = PairsKept(idx, LogicalNot(Inside(idx, qa, qb)))

\* C13: copy() returns an index with the same (allele, position) pairs in
\* the same order and leaves the original as it was; afterwards a
\* remove_slice or add_allele call on the copy leaves the original's alleles
\* and positions unchanged, and a call on the original leaves the copy's
\* unchanged.
C13_CopyIndependent ==
    [][/\ (~copied /\ copied') => (Pairs(cpy') = Pairs(idx) /\ idx' = idx)
       /\ (copied /\ nCalls' > nCalls /\ target' = "cpy") => idx' = idx
       /\ (copied /\ nCalls' > nCalls /\ target' = "idx") => cpy' = cpy]_vars

\* a copy of a non-empty index, changed by a call on it
C13_Witness ==
    /\ copied
    /\ target = "cpy"
    /\ Len(idx.alleles) >= 1
    /\ Len(idx.alleles) = Len(idx.indexes)
    /\ cpy.alleles # idx.alleles

\* C16: the slices do not depend on the order of the two endpoints: the
\* outside slice for (x, y) is the outside slice for (y, x).
C16_EndpointOrderIrrelevant ==
    qout.status # "none" => qout = GetGenesOutsideRange(idx, qb, qa)

\* C14: each generation replaces the population by exactly n_children
\* candidates produced in that generation and goes on to the next one.
C14_PopulationReplacedEachGeneration ==
    [][pc = "generation" =>
        /\ pc' = "loop"
        /\ i' = i + 1
        /\ Len(population') = args.n_children]_vars

\* C15: a cross_over call on two parents returns a child whose allele index
\* is the chosen parent's entries inside [start, stop] followed by the other
\* parent's entries outside [start, stop].
C15_ChildIsInsideThenOutside ==
    (xpc \notin {"none", "call"} /\ Len(xParents) = 2) =>
        /\ xpc = "returned"
        /\ \E start \in Positions, stop \in Positions, chosen \in 1..2 :
              LET donor == xParents[chosen]
                  other == xParents[3 - chosen]
              IN Pairs(xChild) =
                     PairsKept(donor, Inside(donor, start, stop))
                  \o PairsKept(other, LogicalNot(Inside(other, start, stop)))

\* C17: a child returned by cross_over from two parents that hold one allele
\* per gene and no allele twice holds as many entries as each parent and no
\* allele twice.
C17_ChildWellFormed ==
    (xpc \notin {"none", "call"} /\ Len(xParents) = 2) =>
        /\ xpc = "returned"
        /\ Len(xChild.alleles) = NGenes
        /\ Len(xChild.indexes) = NGenes
        /\ \A j, k \in 1..Len(xChild.alleles) :
              j # k => xChild.alleles[j] # xChild.alleles[k]

\* C18: when the pool admits an assignment of pairwise distinct alleles that
\* can survive, every state inside generate_random_parent, after a failed
\* can_survive() and retry too, can still reach a return.
C18_ReturnStaysReachable ==
    (gpc = "building" /\ \E c \in Candidates(genePool) : CanSurvive(c)) =>
        \E t \in GrpReach(genePool, [genes |-> parent, gidx |-> gidx]) : GrpReturns(t)

\* C19: cross_over called with a single parent returns a child.
C19_SingleParentReturnsChild ==
    (xpc \notin {"none", "call"} /\ Len(xParents) = 1) =>
        /\ xpc = "returned"
        /\ Len(xChild.alleles) = Len(xParents[1].alleles)

\* C20: run(n) leaves its loop only by completing n generations: whenever
\* run ends, it returns, after exactly n generations.
C20_RunEndsAfterNGenerations ==
    [][(InRun /\ pc' = "idle") => (result' = "returned" /\ i = args.n)]_vars
====
